---- MODULE Spec2Model ----
(***************************************************************************)
(* The search pipeline of dproc: SearchEngine.query / queryRaw sequence    *)
(* SearchPlanner.plan (LLM, retry with backoff, fallback plan),            *)
(* QueryExecutor.execute (filter, sort, limit) and                         *)
(* ResultConsolidator.consolidate (LLM, fallback summary).                 *)
(*                                                                         *)
(* JavaScript values are tagged records; strings are sequences of          *)
(* one-character strings so that trim/toLowerCase/Number/String are        *)
(* computed, not assumed.  Numbers are integers.                           *)
(***************************************************************************)
EXTENDS Integers, Sequences, FiniteSets, TLC

\* ------------------------------------------------------------------ bounds
\* Largest limit hint a caller passes (hints range over -1..MaxHint or absent).
MaxHint == 2
\* Number of concurrent invocations in the concurrent specification.
NumQueries == 2
\* Most phrases a query text is put together from in the unit evaluations
\* of sanitizeQuery.
MaxPhrases == 3
\* Longest record collection in the unit evaluations of execute.
MaxRecords == 4

\* ------------------------------------------------------- program constants
maxRetries == 3
DefaultLimit == 10
BackoffBase == 2
BackoffUnitMs == 1000

\* --------------------------------------------------------------- JS values
Undefined == [t |-> "undefined", n |-> 0, s |-> <<>>, b |-> FALSE]
Null == [t |-> "null", n |-> 0, s |-> <<>>, b |-> FALSE]
Num(k) == [t |-> "number", n |-> k, s |-> <<>>, b |-> FALSE]
Str(cs) == [t |-> "string", n |-> 0, s |-> cs, b |-> FALSE]
Bool(x) == [t |-> "boolean", n |-> 0, s |-> <<>>, b |-> x]

\* An optional number: <<>> is undefined, <<k>> is the number k.
None == <<>>
Some(k) == <<k>>
\* JS truthiness of an optional number (undefined and 0 are falsy).
Truthy(o) == o # None /\ o[1] # 0
\* a || b on optional numbers
OrElse(a, b) == IF Truthy(a) THEN a ELSE b

\* A JS number result that may be NaN.
NaN == [nan |-> TRUE, n |-> 0]
Finite(k) == [nan |-> FALSE, n |-> k]

\* -------------------------------------------------------------- characters
LowerChars == <<"a","b","c","d","e","f","g","h","i","j","k","l","m",
                "n","o","p","q","r","s","t","u","v","w","x","y","z">>
UpperChars == <<"A","B","C","D","E","F","G","H","I","J","K","L","M",
                "N","O","P","Q","R","S","T","U","V","W","X","Y","Z">>
DigitChars == <<"0","1","2","3","4","5","6","7","8","9">>

IndexOf(seq, c) ==
    IF \E i \in 1..Len(seq) : seq[i] = c
    THEN CHOOSE i \in 1..Len(seq) : seq[i] = c
    ELSE 0

IsDigit(c) == IndexOf(DigitChars, c) > 0
DigitVal(c) == IndexOf(DigitChars, c) - 1
IsSpace(c) == c = " "

LowerChar(c) ==
    LET i == IndexOf(UpperChars, c) IN IF i > 0 THEN LowerChars[i] ELSE c

\* String.prototype.toLowerCase
ToLowerCase(cs) == [i \in 1..Len(cs) |-> LowerChar(cs[i])]

RECURSIVE TrimStart(_)
TrimStart(cs) ==
    IF cs # <<>> /\ IsSpace(Head(cs)) THEN TrimStart(Tail(cs)) ELSE cs

RECURSIVE TrimEnd(_)
TrimEnd(cs) ==
    IF cs # <<>> /\ IsSpace(cs[Len(cs)])
    THEN TrimEnd(SubSeq(cs, 1, Len(cs) - 1))
    ELSE cs

\* String.prototype.trim
Trim(cs) == TrimEnd(TrimStart(cs))

\* String.prototype.startsWith / endsWith / includes
StartsWith(cs, p) == Len(p) <= Len(cs) /\ SubSeq(cs, 1, Len(p)) = p
EndsWith(cs, p) ==
    Len(p) <= Len(cs) /\ SubSeq(cs, Len(cs) - Len(p) + 1, Len(cs)) = p
Includes(cs, p) ==
    \E i \in 1..(Len(cs) + 1) :
        i + Len(p) - 1 <= Len(cs) /\ SubSeq(cs, i, i + Len(p) - 1) = p

\* Decimal digits of a natural number.
RECURSIVE NatDigits(_)
NatDigits(k) ==
    IF k < 10 THEN <<DigitChars[k + 1]>>
    ELSE NatDigits(k \div 10) \o <<DigitChars[(k % 10) + 1]>>

\* Number.prototype.toString for an integer.
NumberToString(k) == IF k < 0 THEN <<"-">> \o NatDigits(0 - k) ELSE NatDigits(k)

\* String(value)
String(v) ==
    CASE v.t = "string" -> v.s
      [] v.t = "number" -> NumberToString(v.n)
      [] v.t = "boolean" ->
            IF v.b THEN <<"t","r","u","e">> ELSE <<"f","a","l","s","e">>
      [] v.t = "null" -> <<"n","u","l","l">>
      [] OTHER -> <<"u","n","d","e","f","i","n","e","d">>

RECURSIVE DigitsValue(_, _)
DigitsValue(cs, acc) ==
    IF cs = <<>> THEN acc
    ELSE DigitsValue(Tail(cs), acc * 10 + DigitVal(Head(cs)))

AllDigits(cs) == cs # <<>> /\ \A i \in 1..Len(cs) : IsDigit(cs[i])

\* StringToNumber on the trimmed text: "" is 0, an optionally signed run of
\* decimal digits is its value, anything else is NaN.
StringToNumber(cs) ==
    LET body == Trim(cs) IN
    IF body = <<>> THEN Finite(0)
    ELSE IF AllDigits(body) THEN Finite(DigitsValue(body, 0))
    ELSE IF Head(body) = "-" /\ AllDigits(Tail(body))
         THEN Finite(0 - DigitsValue(Tail(body), 0))
    ELSE IF Head(body) = "+" /\ AllDigits(Tail(body))
         THEN Finite(DigitsValue(Tail(body), 0))
    ELSE NaN

\* Number(value)
Number(v) ==
    CASE v.t = "number" -> Finite(v.n)
      [] v.t = "string" -> StringToNumber(v.s)
      [] v.t = "boolean" -> Finite(IF v.b THEN 1 ELSE 0)
      [] v.t = "null" -> Finite(0)
      [] OTHER -> NaN

\* ---------------------------------------------------------- QueryExecutor
\* Field names of the records, and the sentinel for an absent plan property.
Fields == {"name", "age", "city"}
UNDEF == "undefined"

\* record[field]: a field the record lacks reads as undefined.
FieldOf(record, field) ==
    IF field \in DOMAIN record THEN record[field] ELSE Undefined

\* QueryExecutor.toBoolean: 1 true, 0 false, -1 null.
toBoolean(value) ==
    IF value.t = "boolean" THEN (IF value.b THEN 1 ELSE 0)
    ELSE LET str == Trim(ToLowerCase(String(value))) IN
         IF str = <<"t","r","u","e">> \/ str = <<"1">> THEN 1
         ELSE IF str = <<"f","a","l","s","e">> \/ str = <<"0">> THEN 0
         ELSE -1

\* Mutant of toNumber: a value that does not parse becomes -1.
toNumberUnparsableNegative(value) ==
    IF value.t = "number" THEN value.n
    ELSE LET num == Number(value) IN IF num.nan THEN -1 ELSE num.n

\* QueryExecutor.toNumber
toNumber(value) ==
    IF value.t = "number" THEN value.n
    ELSE LET num == Number(value) IN IF num.nan THEN 0 ELSE num.n

\* Mutant of compareEqual: the numeric comparison is left out.
compareEqualNoNumbers(value1, value2) ==
    LET str1 == ToLowerCase(Trim(String(value1)))
        str2 == ToLowerCase(Trim(String(value2)))
        bool1 == toBoolean(value1)
        bool2 == toBoolean(value2)
    IN  IF value1 = value2 THEN TRUE
        ELSE IF str1 = str2 THEN TRUE
        ELSE IF bool1 # -1 /\ bool2 # -1 /\ bool1 = bool2 THEN TRUE
        ELSE FALSE

\* QueryExecutor.compareEqual
compareEqual(value1, value2) ==
    LET str1 == ToLowerCase(Trim(String(value1)))
        str2 == ToLowerCase(Trim(String(value2)))
        num1 == Number(value1)
        num2 == Number(value2)
        bool1 == toBoolean(value1)
        bool2 == toBoolean(value2)
    IN  IF value1 = value2 THEN TRUE
        ELSE IF str1 = str2 THEN TRUE
        ELSE IF ~num1.nan /\ ~num2.nan /\ num1.n = num2.n THEN TRUE
        ELSE IF bool1 # -1 /\ bool2 # -1 /\ bool1 = bool2 THEN TRUE
        ELSE FALSE

KnownOperators ==
    {"=", "!=", ">", "<", ">=", "<=", "contains", "startsWith", "endsWith"}

\* The callback of records.filter in QueryExecutor.applyFilter.
FilterPredicate(record, filter) ==
    LET fieldValue == FieldOf(record, filter.field)
        filterValue == filter.value
        fv == ToLowerCase(String(fieldValue))
        pv == ToLowerCase(String(filterValue))
    IN  IF fieldValue.t = "null" \/ fieldValue.t = "undefined"
        THEN filter.operator = "!="
        ELSE CASE filter.operator = "=" -> compareEqual(fieldValue, filterValue)
               [] filter.operator = "!=" -> ~compareEqual(fieldValue, filterValue)
               [] filter.operator = ">" -> toNumber(fieldValue) > toNumber(filterValue)
               [] filter.operator = "<" -> toNumber(fieldValue) < toNumber(filterValue)
               [] filter.operator = ">=" -> toNumber(fieldValue) >= toNumber(filterValue)
               [] filter.operator = "<=" -> toNumber(fieldValue) <= toNumber(filterValue)
               [] filter.operator = "contains" -> Includes(fv, pv)
               [] filter.operator = "startsWith" -> StartsWith(fv, pv)
               [] filter.operator = "endsWith" -> EndsWith(fv, pv)
               [] OTHER -> TRUE

\* An array object: its elements and whether it is the caller's
\* bundle.records array itself (shared) or an array this call created.
NewArray(elems) == [shared |-> FALSE, elems |-> elems]

\* Mutant of SpreadCopy: no copy is taken, results is bundle.records itself.
SpreadCopyAlias(records) == [shared |-> TRUE, elems |-> records]

\* [...bundle.records]: a fresh array with the same elements.
SpreadCopy(records) == NewArray(records)

\* Mutant of applyFilter: a record whose field is null or missing passes.
applyFilterNullsPass(arr, filter) ==
    LET Keep(record) ==
            \/ FieldOf(record, filter.field).t \in {"null", "undefined"}
            \/ FilterPredicate(record, filter)
    IN  NewArray(SelectSeq(arr.elems, Keep))

\* Mutant of applyFilter: an operator that is not known rejects the record.
applyFilterRejectsUnknown(arr, filter) ==
    LET Keep(record) ==
            /\ filter.operator \in KnownOperators
            /\ FilterPredicate(record, filter)
    IN  NewArray(SelectSeq(arr.elems, Keep))

\* QueryExecutor.applyFilter: Array.prototype.filter builds a new array.
applyFilter(arr, filter) ==
    LET Keep(record) == FilterPredicate(record, filter)
    IN  NewArray(SelectSeq(arr.elems, Keep))

\* Collation rank of a character for String.prototype.localeCompare:
\* whitespace, punctuation, digits, then letters without regard to case.
PrimaryRank(c) ==
    IF IsSpace(c) THEN 1
    ELSE IF c = "-" THEN 2
    ELSE IF c = "+" THEN 3
    ELSE IF IsDigit(c) THEN 10 + DigitVal(c)
    ELSE 30 + IndexOf(LowerChars, LowerChar(c))

\* Case rank: lower case sorts before upper case on a primary tie.
TertiaryRank(c) == IF IndexOf(UpperChars, c) > 0 THEN 1 ELSE 0

RECURSIVE LexCompare(_, _)
LexCompare(ka, kb) ==
    IF ka = <<>> /\ kb = <<>> THEN 0
    ELSE IF ka = <<>> THEN -1
    ELSE IF kb = <<>> THEN 1
    ELSE IF Head(ka) < Head(kb) THEN -1
    ELSE IF Head(ka) > Head(kb) THEN 1
    ELSE LexCompare(Tail(ka), Tail(kb))

\* String.prototype.localeCompare
LocaleCompare(a, b) ==
    LET pa == [i \in 1..Len(a) |-> PrimaryRank(a[i])]
        pb == [i \in 1..Len(b) |-> PrimaryRank(b[i])]
        primary == LexCompare(pa, pb)
    IN  IF primary # 0 THEN primary
        ELSE LexCompare([i \in 1..Len(a) |-> TertiaryRank(a[i])],
                        [i \in 1..Len(b) |-> TertiaryRank(b[i])])

\* Mutant of sortCompare: a null or missing value sorts first.
sortCompareNullsFirst(a, b, sortBy, sortOrder) ==
    LET aVal == FieldOf(a, sortBy)
        bVal == FieldOf(b, sortBy)
        order == IF sortOrder = UNDEF THEN "asc" ELSE sortOrder
        comparison ==
            IF aVal.t = "number" /\ bVal.t = "number" THEN aVal.n - bVal.n
            ELSE LocaleCompare(String(aVal), String(bVal))
    IN  IF aVal.t = "null" \/ aVal.t = "undefined" THEN -1
        ELSE IF bVal.t = "null" \/ bVal.t = "undefined" THEN 1
        ELSE IF order = "asc" THEN comparison ELSE 0 - comparison

\* The comparator passed to records.sort in QueryExecutor.sortResults;
\* an undefined sortOrder takes the parameter default 'asc'.
sortCompare(a, b, sortBy, sortOrder) ==
    LET aVal == FieldOf(a, sortBy)
        bVal == FieldOf(b, sortBy)
        order == IF sortOrder = UNDEF THEN "asc" ELSE sortOrder
        comparison ==
            IF aVal.t = "number" /\ bVal.t = "number" THEN aVal.n - bVal.n
            ELSE LocaleCompare(String(aVal), String(bVal))
    IN  IF aVal.t = "null" \/ aVal.t = "undefined" THEN 1
        ELSE IF bVal.t = "null" \/ bVal.t = "undefined" THEN -1
        ELSE IF order = "asc" THEN comparison ELSE 0 - comparison

\* Array.prototype.sort as the runtime (V8, arrays shorter than 64) runs
\* it: find the leading run (reversing a strictly descending one), then
\* binary insertion of the remaining elements.
RECURSIVE RunEnd(_, _, _, _, _)
RunEnd(arr, idx, isDescending, sortBy, sortOrder) ==
    IF idx > Len(arr) THEN idx - 1
    ELSE LET order == sortCompare(arr[idx], arr[idx - 1], sortBy, sortOrder)
         IN  IF (isDescending /\ order >= 0) \/ (~isDescending /\ order < 0)
             THEN idx - 1
             ELSE RunEnd(arr, idx + 1, isDescending, sortBy, sortOrder)

Reverse(seq) == [i \in 1..Len(seq) |-> seq[Len(seq) + 1 - i]]

\* Mutant of InsertionPoint: a pivot that compares equal goes before the
\* element it is equal to.
RECURSIVE InsertionPointTiesFirst(_, _, _, _, _, _)
InsertionPointTiesFirst(arr, pivot, left, right, sortBy, sortOrder) ==
    IF left >= right THEN left
    ELSE LET mid == left + ((right - left) \div 2)
             order == sortCompare(pivot, arr[mid], sortBy, sortOrder)
         IN  IF order <= 0
             THEN InsertionPointTiesFirst(arr, pivot, left, mid,
                                          sortBy, sortOrder)
             ELSE InsertionPointTiesFirst(arr, pivot, mid + 1, right,
                                          sortBy, sortOrder)

RECURSIVE InsertionPoint(_, _, _, _, _, _)
InsertionPoint(arr, pivot, left, right, sortBy, sortOrder) ==
    IF left >= right THEN left
    ELSE LET mid == left + ((right - left) \div 2)
             order == sortCompare(pivot, arr[mid], sortBy, sortOrder)
         IN  IF order < 0
             THEN InsertionPoint(arr, pivot, left, mid, sortBy, sortOrder)
             ELSE InsertionPoint(arr, pivot, mid + 1, right, sortBy, sortOrder)

RECURSIVE BinaryInsertionSort(_, _, _, _)
BinaryInsertionSort(arr, start, sortBy, sortOrder) ==
    IF start > Len(arr) THEN arr
    ELSE LET pivot == arr[start]
             left == InsertionPoint(arr, pivot, 1, start, sortBy, sortOrder)
             moved == SubSeq(arr, 1, left - 1) \o <<pivot>>
                        \o SubSeq(arr, left, start - 1)
                        \o SubSeq(arr, start + 1, Len(arr))
         IN  BinaryInsertionSort(moved, start + 1, sortBy, sortOrder)

\* The run found, reversed when descending, then the binary insertions.
SortFromRun(elems, isDescending, runLength, sortBy, sortOrder) ==
    BinaryInsertionSort(
        IF isDescending
        THEN Reverse(SubSeq(elems, 1, runLength))
               \o SubSeq(elems, runLength + 1, Len(elems))
        ELSE elems,
        runLength + 1, sortBy, sortOrder)

CountAndMakeRun(elems, isDescending, sortBy, sortOrder) ==
    SortFromRun(elems, isDescending,
                RunEnd(elems, 3, isDescending, sortBy, sortOrder),
                sortBy, sortOrder)

ArraySort(elems, sortBy, sortOrder) ==
    IF Len(elems) < 2 THEN elems
    ELSE CountAndMakeRun(
             elems, sortCompare(elems[2], elems[1], sortBy, sortOrder) < 0,
             sortBy, sortOrder)

\* QueryExecutor.sortResults: records.sort sorts the array it is given in
\* place and returns that same array.
sortResults(arr, sortBy, sortOrder) ==
    [shared |-> arr.shared, elems |-> ArraySort(arr.elems, sortBy, sortOrder)]

\* Array.prototype.slice(0, limit): a new array.
Slice(arr, limit) ==
    NewArray(SubSeq(arr.elems, 1, IF limit < Len(arr.elems) THEN limit
                                  ELSE Len(arr.elems)))

\* Mutant of FilterLoop: the loop stops after the first filter.
FilterLoopFirstOnly(results, filters) ==
    IF filters = <<>> THEN [threw |-> FALSE, arr |-> results]
    ELSE IF ~Head(filters).isObject THEN [threw |-> TRUE, arr |-> results]
    ELSE [threw |-> FALSE, arr |-> applyFilter(results, Head(filters))]

\* The for-of loop over plan.filters; reading filter.field of a filter that
\* is null or undefined throws a TypeError.
RECURSIVE FilterLoop(_, _)
FilterLoop(results, filters) ==
    IF filters = <<>> THEN [threw |-> FALSE, arr |-> results]
    ELSE IF ~Head(filters).isObject THEN [threw |-> TRUE, arr |-> results]
    ELSE FilterLoop(applyFilter(results, Head(filters)), Tail(filters))

\* if (plan.sortBy) results = this.sortResults(...)
SortStep(arr, plan) ==
    IF plan.sortBy # UNDEF /\ plan.sortBy # ""
    THEN sortResults(arr, plan.sortBy, plan.sortOrder)
    ELSE arr

\* Mutant of LimitStep: the sign of the limit is not tested.
LimitStepAnySign(arr, plan) ==
    IF Truthy(plan.limit)
    THEN Slice(arr, plan.limit[1])
    ELSE arr

\* if (plan.limit && plan.limit > 0) results = results.slice(0, plan.limit)
LimitStep(arr, plan) ==
    IF Truthy(plan.limit) /\ plan.limit[1] > 0
    THEN Slice(arr, plan.limit[1])
    ELSE arr

\* The end of execute: the array returned, and bundle.records as the sort
\* left it (the sort writes into the array it was given).
ExecuteReturn(bundleRecords, sorted, plan) ==
    [threw |-> FALSE, results |-> LimitStep(sorted, plan).elems,
     records |-> IF sorted.shared THEN sorted.elems ELSE bundleRecords]

ExecuteFiltered(bundleRecords, filtered, plan) ==
    IF filtered.threw
    THEN [threw |-> TRUE, results |-> <<>>, records |-> bundleRecords]
    ELSE ExecuteReturn(bundleRecords, SortStep(filtered.arr, plan), plan)

\* QueryExecutor.execute.  Returns whether it threw, the array it returns,
\* and the contents of bundle.records afterwards.
execute(bundleRecords, plan) ==
    ExecuteFiltered(bundleRecords,
                    FilterLoop(SpreadCopy(bundleRecords), plan.filters), plan)

\* ------------------------------------------------------------------ inputs
John == [name |-> Str(<<"J","o","h","n">>), age |-> Num(30),
         city |-> Str(<<"N","Y","C">>)]
Jane == [name |-> Str(<<"J","a","n","e">>), age |-> Num(25),
         city |-> Str(<<"L","A">>)]
Al == [name |-> Str(<<"A","l">>), age |-> Null,
       city |-> Str(<<"n","y","c">>)]

\* The record collections a caller supplies.
RecordCollections == { <<>>, <<John, Jane>>, <<Al, John, Jane>> }

Filter(field, operator, value) ==
    [isObject |-> TRUE, field |-> field, operator |-> operator, value |-> value]
\* A filters entry that is null.
NullFilter ==
    [isObject |-> FALSE, field |-> "", operator |-> "", value |-> Null]

\* A JSON object the planning collaborator may answer with.
PlanJson(isArray, filters, sortBy, sortOrder, limit) ==
    [filtersIsArray |-> isArray, filters |-> filters, sortBy |-> sortBy,
     sortOrder |-> sortOrder, limit |-> limit]

CityIsNYC == Filter("city", "=", Str(<<"N","Y","C">>))
AgeOver27 == Filter("age", ">", Num(27))
AgeOver100 == Filter("age", ">", Num(100))

PlanJsons ==
    { PlanJson(TRUE, <<CityIsNYC>>, UNDEF, UNDEF, Some(10)),
      PlanJson(TRUE, <<>>, "age", "asc", None),
      PlanJson(TRUE, <<AgeOver100>>, UNDEF, UNDEF, Some(10)),
      PlanJson(FALSE, <<>>, "name", UNDEF, Some(0)),
      PlanJson(TRUE, <<>>, UNDEF, UNDEF, Some(-1)),
      PlanJson(TRUE, <<AgeOver27, NullFilter>>, UNDEF, UNDEF, None) }

\* A JSON value the consolidation collaborator may answer with; isNull is
\* the JSON text null, an empty answer stands for an absent one.
ConsJson(isNull, answer, insights, stats) ==
    [isNull |-> isNull, answer |-> answer, insights |-> insights,
     stats |-> stats]

ConsJsons ==
    { ConsJson(FALSE, "Two people live in NYC.", <<"NYC is common">>,
               {<<"average_age", 27>>}),
      ConsJson(FALSE, "", <<>>, {}) }

\* What a generateText call comes back with: a rejection, or a text of one
\* of these shapes (value is the JSON value inside, when there is one).
TextShapes ==
    {"undefined", "empty", "blank", "prose", "brokenJson", "object",
     "fencedObject", "jsonNull"}
Response(threw, shape, value) ==
    [threw |-> threw, shape |-> shape, value |-> value]
NoValue == PlanJson(FALSE, <<>>, UNDEF, UNDEF, None)
NoConsValue == ConsJson(TRUE, "", <<>>, {})

FailureResponses(none) ==
    {Response(TRUE, "undefined", none)} \cup
    {Response(FALSE, sh, none) :
        sh \in {"undefined", "empty", "blank", "prose", "brokenJson"}}

PlanResponses ==
    FailureResponses(NoValue) \cup
    {Response(FALSE, "object", j) : j \in PlanJsons}

ConsResponses ==
    FailureResponses(NoConsValue) \cup
    {Response(FALSE, "jsonNull", NoConsValue)} \cup
    {Response(FALSE, sh, j) : sh \in {"object", "fencedObject"}, j \in ConsJsons}

Kinds == {"query", "queryRaw"}
LimitHints == {None} \cup {Some(k) : k \in -1..MaxHint}

\* The invocations of the concurrent specification and its inputs.
Queries == 1..NumQueries
ConcPlanResponses ==
    { Response(FALSE, "blank", NoValue),
      Response(FALSE, "object", PlanJson(TRUE, <<>>, "age", "asc", None)),
      Response(FALSE, "object", PlanJson(TRUE, <<>>, "name", UNDEF, Some(2))) }
ConcConsResponses == { Response(TRUE, "undefined", NoConsValue) }
ConcLimitHints == {None, Some(1)}

\* --------------------------------------------- SearchPlanner.sanitizeQuery
\* \w of a regular expression.
IsWordChar(c) ==
    IndexOf(LowerChars, c) > 0 \/ IndexOf(UpperChars, c) > 0 \/ IsDigit(c)
        \/ c = "_"

\* \b before position k of the text (k = Len + 1 is its end).
WordBoundary(cs, k) ==
    (k > 1 /\ IsWordChar(cs[k - 1])) # (k <= Len(cs) /\ IsWordChar(cs[k]))

\* /\b<word>\b/i matches at position k.
MatchesAt(cs, k, word) ==
    /\ k + Len(word) - 1 <= Len(cs)
    /\ ToLowerCase(SubSeq(cs, k, k + Len(word) - 1)) = word
    /\ WordBoundary(cs, k)
    /\ WordBoundary(cs, k + Len(word))

\* Length of the match at position k, trying the alternatives in the order
\* the expression tries them; 0 when none matches.
RECURSIVE MatchLength(_, _, _)
MatchLength(cs, k, alts) ==
    IF alts = <<>> THEN 0
    ELSE IF MatchesAt(cs, k, Head(alts)) THEN Len(Head(alts))
    ELSE MatchLength(cs, k, Tail(alts))

\* String.prototype.replace with a /g expression, scanning from position k.
RECURSIVE ReplaceFrom(_, _, _, _)
ReplaceFrom(cs, k, alts, repl) ==
    IF k > Len(cs) THEN <<>>
    ELSE IF MatchLength(cs, k, alts) > 0
         THEN repl \o ReplaceFrom(cs, k + MatchLength(cs, k, alts), alts, repl)
    ELSE <<cs[k]>> \o ReplaceFrom(cs, k + 1, alts, repl)

\* The alternatives /\bearns?\b/ tries at a position, longest first, and
\* the texts of the other expressions, each with its replacement, in the
\* order of the .replace chain.
SanitizerRules ==
    << [alts |-> <<<<"e","a","r","n","s">>, <<"e","a","r","n">>>>,
       repl |-> <<"h","a","s">>],
       [alts |-> <<<<"s","a","l","a","r","y">>>>,
       repl |-> <<"c","o","m","p","e","n","s","a","t","i","o","n">>],
       [alts |-> <<<<"i","n","c","o","m","e">>>>,
       repl |-> <<"a","m","o","u","n","t">>],
       [alts |-> <<<<"p","a","y","m","e","n","t">>>>,
       repl |-> <<"v","a","l","u","e">>],
       [alts |-> <<<<"m","o","n","e","y">>>>,
       repl |-> <<"a","m","o","u","n","t">>],
       [alts |-> <<<<"m","o","r","e"," ","t","h","a","n">>>>,
       repl |-> <<"g","r","e","a","t","e","r"," ","t","h","a","n">>],
       [alts |-> <<<<"l","e","s","s"," ","t","h","a","n">>>>,
       repl |-> <<"b","e","l","o","w">>],
       [alts |-> <<<<"g","r","e","a","t","e","r"," ","t","h","a","n"," ","o","r"," ","e","q","u","a","l"," ","t","o">>>>,
       repl |-> <<"a","t"," ","l","e","a","s","t">>],
       [alts |-> <<<<"l","e","s","s"," ","t","h","a","n"," ","o","r"," ","e","q","u","a","l"," ","t","o">>>>,
       repl |-> <<"a","t"," ","m","o","s","t">>] >>

\* The same replacements with the two "or equal to" phrases handled first.
ReorderedRules ==
    << [alts |-> <<<<"g","r","e","a","t","e","r"," ","t","h","a","n"," ","o","r"," ","e","q","u","a","l"," ","t","o">>>>,
       repl |-> <<"a","t"," ","l","e","a","s","t">>],
       [alts |-> <<<<"l","e","s","s"," ","t","h","a","n"," ","o","r"," ","e","q","u","a","l"," ","t","o">>>>,
       repl |-> <<"a","t"," ","m","o","s","t">>],
       [alts |-> <<<<"e","a","r","n","s">>, <<"e","a","r","n">>>>,
       repl |-> <<"h","a","s">>],
       [alts |-> <<<<"s","a","l","a","r","y">>>>,
       repl |-> <<"c","o","m","p","e","n","s","a","t","i","o","n">>],
       [alts |-> <<<<"i","n","c","o","m","e">>>>,
       repl |-> <<"a","m","o","u","n","t">>],
       [alts |-> <<<<"p","a","y","m","e","n","t">>>>,
       repl |-> <<"v","a","l","u","e">>],
       [alts |-> <<<<"m","o","n","e","y">>>>,
       repl |-> <<"a","m","o","u","n","t">>],
       [alts |-> <<<<"m","o","r","e"," ","t","h","a","n">>>>,
       repl |-> <<"g","r","e","a","t","e","r"," ","t","h","a","n">>],
       [alts |-> <<<<"l","e","s","s"," ","t","h","a","n">>>>,
       repl |-> <<"b","e","l","o","w">>] >>

RECURSIVE ApplyRules(_, _)
ApplyRules(cs, rules) ==
    IF rules = <<>> THEN cs
    ELSE ApplyRules(ReplaceFrom(cs, 1, Head(rules).alts, Head(rules).repl),
                    Tail(rules))

\* Mutant of sanitizeQuery: the chain runs in another order.
sanitizeQueryReordered(query) == ApplyRules(query, ReorderedRules)

\* SearchPlanner.sanitizeQuery
sanitizeQuery(query) == ApplyRules(query, SanitizerRules)

\* ----------------------------------------------------------- SearchPlanner
\* !result.text || result.text.trim().length === 0
IsEmptyText(resp) == resp.shape \in {"undefined", "empty", "blank"}
\* result.text.match(/\{[\s\S]*\}/)
HasJsonMatch(resp) == resp.shape \in {"object", "fencedObject", "brokenJson"}
\* JSON.parse(jsonMatch[0]) throws
JsonParseThrows(resp) == resp.shape = "brokenJson"

\* How one attempt of plan() ends, in the order the code tests.
Classify(resp) ==
    IF resp.threw THEN "thrown"
    ELSE IF IsEmptyText(resp) THEN "empty"
    ELSE IF ~HasJsonMatch(resp) THEN "noJson"
    ELSE IF JsonParseThrows(resp) THEN "badJson"
    ELSE "parsed"

RECURSIVE Pow(_, _)
Pow(base, e) == IF e = 0 THEN 1 ELSE base * Pow(base, e - 1)

\* Mutant of WaitTime: a linear backoff.
WaitTimeLinear(attempt) == attempt * BackoffUnitMs

\* Math.pow(2, attempt) * 1000
WaitTime(attempt) == Pow(BackoffBase, attempt) * BackoffUnitMs

\* Mutant of CatchBlock: the error of the last attempt is thrown on.
CatchBlockRethrows(attempt) ==
    IF attempt < maxRetries
    THEN [next |-> "wait", ms |-> Pow(BackoffBase, attempt) * BackoffUnitMs]
    ELSE [next |-> "raise", ms |-> 0]

\* The catch block of the retry loop: wait when attempts remain, then the
\* loop goes on; after the last attempt the loop ends.
CatchBlock(attempt) ==
    IF attempt < maxRetries
    THEN [next |-> "wait", ms |-> WaitTime(attempt)]
    ELSE [next |-> "exhausted", ms |-> 0]

\* Mutant of RetryOrThrow: the attempt count is not tested before waiting.
RetryOrThrowAlwaysWaits(attempt) ==
    [next |-> "wait", ms |-> Pow(BackoffBase, attempt) * BackoffUnitMs]

\* The empty-response and no-JSON branches: wait and continue when attempts
\* remain, else throw into the catch block.
RetryOrThrow(attempt) ==
    IF attempt < maxRetries
    THEN [next |-> "wait", ms |-> WaitTime(attempt)]
    ELSE CatchBlock(attempt)

\* Mutant of AfterAttempt: a thrown collaborator error (or a missing
\* configuration) is not caught by the loop.
AfterAttemptFatalEscapes(tag, attempt) ==
    CASE tag \in {"empty", "noJson"} ->
              IF attempt < maxRetries
              THEN [next |-> "wait",
                    ms |-> Pow(BackoffBase, attempt) * BackoffUnitMs]
              ELSE [next |-> "exhausted", ms |-> 0]
      [] tag = "badJson" ->
              IF attempt < maxRetries
              THEN [next |-> "wait",
                    ms |-> Pow(BackoffBase, attempt) * BackoffUnitMs]
              ELSE [next |-> "exhausted", ms |-> 0]
      [] tag \in {"noClient", "thrown"} -> [next |-> "raise", ms |-> 0]
      [] OTHER -> [next |-> "return", ms |-> 0]

\* Mutant of AfterAttempt: a parsed answer before the last attempt is
\* followed by a wait and one more attempt.
AfterAttemptRetriesParsed(tag, attempt) ==
    CASE tag \in {"empty", "noJson"} -> RetryOrThrow(attempt)
      [] tag \in {"noClient", "thrown", "badJson"} -> CatchBlock(attempt)
      [] OTHER -> IF attempt < maxRetries
                  THEN [next |-> "wait",
                        ms |-> WaitTime(attempt)]
                  ELSE [next |-> "return", ms |-> 0]

\* What the loop body does with the outcome of attempt number `attempt`.
AfterAttempt(tag, attempt) ==
    CASE tag \in {"empty", "noJson"} -> RetryOrThrow(attempt)
      [] tag \in {"noClient", "thrown", "badJson"} -> CatchBlock(attempt)
      [] OTHER -> [next |-> "return", ms |-> 0]

\* Mutant of BuildPlan: the parsed limit is taken as it is, with no default.
BuildPlanNoDefaults(parsed, limitHint) ==
    [filters |-> IF parsed.filtersIsArray THEN parsed.filters ELSE <<>>,
     sortBy |-> parsed.sortBy,
     sortOrder |-> IF parsed.sortOrder \in {UNDEF, ""} THEN "desc"
                   ELSE parsed.sortOrder,
     limit |-> parsed.limit]

\* The plan built from a parsed response (validate and set defaults).
BuildPlan(parsed, limitHint) ==
    [filters |-> IF parsed.filtersIsArray THEN parsed.filters ELSE <<>>,
     sortBy |-> parsed.sortBy,
     sortOrder |-> IF parsed.sortOrder \in {UNDEF, ""} THEN "desc"
                   ELSE parsed.sortOrder,
     limit |-> OrElse(parsed.limit, OrElse(limitHint, Some(DefaultLimit)))]

\* Mutant of FallbackPlan: the caller's limit is not looked at.
FallbackPlanFixedLimit(limitHint) ==
    [filters |-> <<>>, sortBy |-> UNDEF, sortOrder |-> UNDEF,
     limit |-> Some(DefaultLimit)]

\* The plan returned when every attempt failed.
FallbackPlan(limitHint) ==
    [filters |-> <<>>, sortBy |-> UNDEF, sortOrder |-> UNDEF,
     limit |-> OrElse(limitHint, Some(DefaultLimit))]

\* -------------------------------------------------------- ResultConsolidator
Consolidated(answer, insights, stats) ==
    [answer |-> answer, insights |-> insights, stats |-> stats]

\* The short-circuit for an empty match sequence.
NoMatchesAnswer ==
    Consolidated("No matching records found for your query.", <<>>, {})

\* The catch block of consolidate.
ConsolidateFallback(n) ==
    Consolidated("Found " \o ToString(n) \o " matching records.", <<>>,
                 {<<"total", n>>})

\* Mutant of generateJson: a text that does not parse yields an empty
\* object instead of an error.
generateJsonLenient(resp) ==
    IF resp.threw THEN [threw |-> TRUE, value |-> NoConsValue]
    ELSE IF resp.shape \in {"object", "fencedObject"}
         THEN [threw |-> FALSE, value |-> resp.value]
    ELSE [threw |-> FALSE, value |-> ConsJson(FALSE, "", <<>>, {})]

\* LlmClient.generateJson on the collaborator's answer: threw, or the
\* parsed JSON value.
generateJson(resp) ==
    IF resp.threw THEN [threw |-> TRUE, value |-> NoConsValue]
    ELSE IF resp.shape \in {"object", "fencedObject"}
         THEN [threw |-> FALSE, value |-> resp.value]
    ELSE IF resp.shape = "jsonNull"
         THEN [threw |-> FALSE, value |-> NoConsValue]
    ELSE [threw |-> TRUE, value |-> NoConsValue]

\* The try block of consolidate after generateJson settles.
ConsolidateResult(resp, n) ==
    LET parsed == generateJson(resp) IN
    IF parsed.threw \/ parsed.value.isNull THEN ConsolidateFallback(n)
    ELSE Consolidated(IF parsed.value.answer = "" THEN "Results found."
                      ELSE parsed.value.answer,
                      parsed.value.insights, parsed.value.stats)

\* ------------------------------------------------------------------- state
VARIABLES
    records,       \* bundle.records, the caller's array
    original,      \* the collection as the caller supplied it
    wellFormed,    \* the bundle is complete: metadata, stats, samples, records
    hasPlanInputs, \* the bundle has what plan() reads: metadata, stats, samples
    llmConfig,     \* ConfigManager holds an LLM configuration
    cachedClient,  \* ProviderResolver.cachedClient is set
    pc,            \* where each invocation stands
    kind,          \* "query" or "queryRaw"
    hint,          \* options.limit of the invocation
    attempt,       \* the loop variable of plan()
    calls,         \* generateText calls plan() has issued
    delays,        \* the backoff waits plan() has started, in order
    log,           \* how each attempt of plan() ended, in order
    planJson,      \* the JSON object the plan was built from, if any
    plan,          \* the plan plan() returned
    matching,      \* the records execute returned
    consCalls,     \* generateText calls consolidate() has issued
    consLog,       \* how the consolidation call ended
    consolidated,  \* what consolidate() returned
    outcome,       \* "pending", "returned" or "raised"
    flt,           \* one applyFilter / compareEqual evaluation
    exec,          \* one QueryExecutor.execute evaluation
    san            \* one sanitizeQuery evaluation

vars == <<records, original, wellFormed, hasPlanInputs, llmConfig,
          cachedClient, pc, kind, hint, attempt, calls, delays, log, planJson,
          plan, matching, consCalls, consLog, consolidated, outcome, flt,
          exec, san>>

bundleVars == <<original, wellFormed, hasPlanInputs, llmConfig>>
engineVars == <<records, bundleVars, cachedClient, pc, kind, hint, attempt,
                calls, delays, log, planJson, plan, matching, consCalls,
                consLog, consolidated, outcome>>
unitVars == <<flt, exec, san>>

NoPlan == [filters |-> <<>>, sortBy |-> UNDEF, sortOrder |-> UNDEF,
           limit |-> None]
NoConsolidated == Consolidated("", <<>>, {})

\* The unit evaluations when they are not under study.
FltOff == [pc |-> "off"]
ExecOff == [pc |-> "off"]
SanOff == [pc |-> "off"]

\* The engine before any invocation, on the bundle the caller holds.
EngineInit(complete, planInputs, configs, collections) ==
    /\ wellFormed \in complete
    /\ hasPlanInputs \in (IF wellFormed THEN {TRUE} ELSE planInputs)
    /\ llmConfig \in configs
    /\ original \in (IF wellFormed THEN collections ELSE {<<>>})
    /\ records = original
    /\ cachedClient = FALSE
    /\ pc = [q \in Queries |-> "idle"]
    /\ kind = [q \in Queries |-> "query"]
    /\ hint = [q \in Queries |-> None]
    /\ attempt = [q \in Queries |-> 0]
    /\ calls = [q \in Queries |-> 0]
    /\ delays = [q \in Queries |-> <<>>]
    /\ log = [q \in Queries |-> <<>>]
    /\ planJson = [q \in Queries |-> NoValue]
    /\ plan = [q \in Queries |-> NoPlan]
    /\ matching = [q \in Queries |-> <<>>]
    /\ consCalls = [q \in Queries |-> 0]
    /\ consLog = [q \in Queries |-> "none"]
    /\ consolidated = [q \in Queries |-> NoConsolidated]
    /\ outcome = [q \in Queries |-> "pending"]

Init ==
    /\ EngineInit(BOOLEAN, BOOLEAN, BOOLEAN, RecordCollections)
    /\ flt = FltOff
    /\ exec = ExecOff
    /\ san = SanOff

\* ProviderResolver.getClient succeeds: a cached client, or a configuration
\* to build one from.
ClientAvailable == cachedClient \/ llmConfig

\* The loop of plan() moves on after attempt `a` ended with `tag`:
\* return the plan, start a backoff wait, or leave the loop with the
\* fallback plan; "raise" is an error leaving plan().
Settle(q, a, tag, parsed, h) ==
    LET step == AfterAttempt(tag, a) IN
    /\ log' = [log EXCEPT ![q] = Append(@, tag)]
    /\ CASE step.next = "return" ->
              /\ planJson' = [planJson EXCEPT ![q] = parsed]
              /\ plan' = [plan EXCEPT ![q] = BuildPlan(parsed, h)]
              /\ pc' = [pc EXCEPT ![q] = "planned"]
              /\ UNCHANGED <<delays, outcome>>
         [] step.next = "wait" ->
              /\ delays' = [delays EXCEPT ![q] = Append(@, step.ms)]
              /\ pc' = [pc EXCEPT ![q] = "planWait"]
              /\ UNCHANGED <<planJson, plan, outcome>>
         [] step.next = "exhausted" ->
              /\ plan' = [plan EXCEPT ![q] = FallbackPlan(h)]
              /\ pc' = [pc EXCEPT ![q] = "planned"]
              /\ UNCHANGED <<planJson, delays, outcome>>
         [] OTHER ->
              /\ outcome' = [outcome EXCEPT ![q] = "raised"]
              /\ pc' = [pc EXCEPT ![q] = "done"]
              /\ UNCHANGED <<planJson, delays, plan>>

\* The top of the loop body for attempt `a`: getClient, then generateText.
BeginAttempt(q, a, h) ==
    /\ attempt' = [attempt EXCEPT ![q] = a]
    /\ IF ClientAvailable
       THEN /\ cachedClient' = TRUE
            /\ calls' = [calls EXCEPT ![q] = @ + 1]
            /\ pc' = [pc EXCEPT ![q] = "planCall"]
            /\ UNCHANGED <<log, delays, planJson, plan, outcome>>
       ELSE /\ Settle(q, a, "noClient", NoValue, h)
            /\ UNCHANGED <<cachedClient, calls>>

\* The options query() and queryRaw() hand to plan(): { limit: options?.limit }.
PlanOptions(k, h) == h

\* SearchEngine.query / queryRaw is called: plan() runs to its first await.
Invoke(q, k, h) ==
    /\ pc[q] = "idle"
    /\ kind' = [kind EXCEPT ![q] = k]
    /\ hint' = [hint EXCEPT ![q] = h]
    /\ IF hasPlanInputs
       THEN BeginAttempt(q, 1, PlanOptions(k, h))
       ELSE /\ outcome' = [outcome EXCEPT ![q] = "raised"]
            /\ pc' = [pc EXCEPT ![q] = "done"]
            /\ UNCHANGED <<cachedClient, attempt, calls, delays, log,
                           planJson, plan>>
    /\ UNCHANGED <<records, bundleVars, matching, consCalls, consLog,
                   consolidated>>

\* The generateText call of plan() settles with `resp`.
PlanRespond(q, resp) ==
    /\ pc[q] = "planCall"
    /\ Settle(q, attempt[q], Classify(resp), resp.value,
              PlanOptions(kind[q], hint[q]))
    /\ UNCHANGED <<records, bundleVars, cachedClient, kind, hint, attempt,
                   calls, matching, consCalls, consLog, consolidated>>

\* Mutant of BackoffElapsed: the promise of the backoff timer is never
\* resolved.
BackoffNeverElapses(q) == pc[q] = "planWait" /\ FALSE /\ UNCHANGED vars

\* The backoff timer fires: the loop goes on with the next attempt.
BackoffElapsed(q) ==
    /\ pc[q] = "planWait"
    /\ BeginAttempt(q, attempt[q] + 1, PlanOptions(kind[q], hint[q]))
    /\ UNCHANGED <<records, bundleVars, kind, hint, matching, consCalls,
                   consLog, consolidated>>

\* Mutant of ShortCircuit: the empty case is not told apart.
ShortCircuitNever(n) == FALSE

\* if (results.length === 0): consolidate answers without a collaborator.
ShortCircuit(n) == n = 0

\* Mutant of AfterExecute: queryRaw() consolidates as query() does.
AfterExecuteAlwaysConsolidates(k) == "consolidate"

\* What follows execute in the caller: consolidate for query(), the return
\* for queryRaw().
AfterExecute(k) == IF k = "query" THEN "consolidate" ELSE "return"

\* [...bundle.records] throws a TypeError when bundle.records is not there.
SpreadThrows == ~wellFormed

\* plan() has returned: execute runs, and for query() consolidate runs to
\* its first await (or to its return when it issues no call).
ExecutePlan(q) ==
    \E run \in {execute(records, plan[q])} :
    \E n \in {Len(run.results)} :
    /\ pc[q] = "planned"
    /\ records' = run.records
    /\ IF SpreadThrows \/ run.threw
       THEN /\ outcome' = [outcome EXCEPT ![q] = "raised"]
            /\ pc' = [pc EXCEPT ![q] = "done"]
            /\ UNCHANGED <<matching, cachedClient, consCalls, consLog,
                           consolidated>>
       ELSE /\ matching' = [matching EXCEPT ![q] = run.results]
            /\ IF AfterExecute(kind[q]) = "return"
               THEN /\ outcome' = [outcome EXCEPT ![q] = "returned"]
                    /\ pc' = [pc EXCEPT ![q] = "done"]
                    /\ UNCHANGED <<cachedClient, consCalls, consLog,
                                   consolidated>>
               ELSE /\ UNCHANGED outcome
                    /\ IF ShortCircuit(n)
                       THEN /\ consolidated' =
                                 [consolidated EXCEPT ![q] = NoMatchesAnswer]
                            /\ consLog' = [consLog EXCEPT ![q] = "noMatches"]
                            /\ pc' = [pc EXCEPT ![q] = "consolidated"]
                            /\ UNCHANGED <<cachedClient, consCalls>>
                       ELSE IF ClientAvailable
                       THEN /\ cachedClient' = TRUE
                            /\ consCalls' = [consCalls EXCEPT ![q] = @ + 1]
                            /\ pc' = [pc EXCEPT ![q] = "consCall"]
                            /\ UNCHANGED <<consLog, consolidated>>
                       ELSE /\ consolidated' =
                                 [consolidated EXCEPT
                                    ![q] = ConsolidateFallback(n)]
                            /\ consLog' = [consLog EXCEPT ![q] = "noClient"]
                            /\ pc' = [pc EXCEPT ![q] = "consolidated"]
                            /\ UNCHANGED <<cachedClient, consCalls>>
    /\ UNCHANGED <<bundleVars, kind, hint, attempt, calls, delays, log,
                   planJson, plan>>

\* What the generateText call under generateJson answered, for the record.
ConsTag(resp) ==
    IF resp.threw THEN "thrown"
    ELSE IF resp.shape \in {"object", "fencedObject"} THEN "parsed"
    ELSE IF resp.shape = "jsonNull" THEN "nullJson"
    ELSE "badJson"

\* The generateText call under generateJson settles with `resp`.
ConsRespond(q, resp) ==
    /\ pc[q] = "consCall"
    /\ consolidated' =
          [consolidated EXCEPT
             ![q] = ConsolidateResult(resp, Len(matching[q]))]
    /\ consLog' = [consLog EXCEPT ![q] = ConsTag(resp)]
    /\ pc' = [pc EXCEPT ![q] = "consolidated"]
    /\ UNCHANGED <<records, bundleVars, cachedClient, kind, hint, attempt,
                   calls, delays, log, planJson, plan, matching, consCalls,
                   outcome>>

\* consolidate() has returned: query() builds the SearchResult and returns.
Complete(q) ==
    /\ pc[q] = "consolidated"
    /\ outcome' = [outcome EXCEPT ![q] = "returned"]
    /\ pc' = [pc EXCEPT ![q] = "done"]
    /\ UNCHANGED <<records, bundleVars, cachedClient, kind, hint, attempt,
                   calls, delays, log, planJson, plan, matching, consCalls,
                   consLog, consolidated>>

\* Mutant of Runnable: a backoff wait holds the thread, so no other
\* invocation runs while one is waiting.
RunnableBlocking(q) == \A p \in Queries : p # q => pc[p] # "planWait"

\* await new Promise(resolve => setTimeout(resolve, waitTime)) gives the
\* thread back to the event loop: the next step of an invocation never has
\* to wait for the timer of another one.
Runnable(q) == TRUE

\* One invocation, every collaborator answer.
SoloQueries == {1}
Next ==
    /\ \E q \in SoloQueries :
          /\ Runnable(q)
          /\ \/ \E k \in Kinds, h \in LimitHints : Invoke(q, k, h)
             \/ \E resp \in PlanResponses : PlanRespond(q, resp)
             \/ BackoffElapsed(q)
             \/ ExecutePlan(q)
             \/ \E resp \in ConsResponses : ConsRespond(q, resp)
             \/ Complete(q)
    /\ UNCHANGED unitVars

Spec == Init /\ [][Next]_vars

\* Concurrent invocations on one bundle.
\* A collaborator call of invocation q settles, its backoff timer fires, or
\* the code after consolidation runs.
Resuming(q) ==
    /\ Runnable(q)
    /\ \/ \E resp \in ConcPlanResponses : PlanRespond(q, resp)
       \/ BackoffElapsed(q)
       \/ \E resp \in ConcConsResponses : ConsRespond(q, resp)
       \/ Complete(q)
    /\ UNCHANGED unitVars

\* The synchronous stretch of invocation q from the plan to the end of
\* execute.
Executing(q) == Runnable(q) /\ ExecutePlan(q) /\ UNCHANGED unitVars

\* ExecutePlan has the single guard pc[q] = "planned".
ExecuteReady(q) == Runnable(q) /\ pc[q] = "planned"

\* query() or queryRaw() is called.
Calling(q) ==
    /\ Runnable(q)
    /\ \E k \in Kinds, h \in ConcLimitHints : Invoke(q, k, h)
    /\ UNCHANGED unitVars

NextConc == \E q \in Queries : Calling(q) \/ Resuming(q) \/ Executing(q)

SpecConc == Init /\ [][NextConc]_vars

\* Invocation q is scheduled fairly: its collaborator calls settle, its
\* timers fire, and the event loop runs its code whenever it is ready.  The
\* second conjunct is WF_vars(Executing(q)) with ENABLED written out as
\* ExecuteReady(q).
Fair(q) == WF_vars(Resuming(q)) /\ []<>(~ExecuteReady(q))

\* The concurrent invocations when every collaborator call settles.
SpecLive == SpecConc /\ \A q \in Queries : Fair(q)

\* Invocation 2 is scheduled fairly; invocation 1 may stay wherever it is
\* for as long as it likes, in a backoff wait in particular.
SpecOneWaits == SpecConc /\ Fair(2)

\* -------------------------------------------------- unit evaluations
\* The values a record field or a filter value takes in the unit
\* evaluations of applyFilter and compareEqual.
PlainValues ==
    {
      Str(<<"3","0">>), Str(<<" ","3","0"," ">>), Str(<<"0","3","0">>),
      Str(<<"t","r","u","e">>), Str(<<"T","R","U","E">>),
      Str(<<" ","T","r","u","e">>), Str(<<"f","a","l","s","e">>),
      Str(<<"1">>), Str(<<"0">>), Str(<<"a","b","c">>), Str(<<"A","B","C">>),
      Str(<<"a","b">>), Str(<<>>), Str(<<" ">>), Str(<<"-","5">>),
      Str(<<"n","u","l","l">>), Num(30), Num(123), Num(0), Num(1), Num(-5),
      Bool(TRUE), Bool(FALSE) }
FilterValues == PlainValues \cup {Null, Num(-1)}
\* One-field records, a record whose field is null, and one without it.
FltRecords ==
    {[f |-> v] : v \in PlainValues} \cup {[f |-> Null], [g |-> Num(1)]}
\* Operators the collaborator may write that applyFilter does not know.
UnknownOperators == {"like", "==", ""}
FltFilters ==
    {Filter("f", op, v) :
        op \in KnownOperators \cup UnknownOperators, v \in FilterValues}

\* One record and one filter, before applyFilter and compareEqual run.
FltStart(record, filter) ==
    [pc |-> "on", record |-> record, filter |-> filter,
     applied |-> FALSE, kept |-> <<>>, compared |-> FALSE, eq |-> FALSE,
     opposed |-> FALSE, keptOpposite |-> <<>>]

InitFilter ==
    /\ EngineInit({TRUE}, {TRUE}, {TRUE}, {<<>>})
    /\ flt \in {FltStart(r, f) : r \in FltRecords, f \in FltFilters}
    /\ exec = ExecOff
    /\ san = SanOff

\* applyFilter runs on the array holding the one record.
ApplyFilterStep ==
    /\ flt.pc = "on"
    /\ ~flt.applied
    /\ flt' = [flt EXCEPT
                 !.applied = TRUE,
                 !.kept = applyFilter(NewArray(<<flt.record>>),
                                      flt.filter).elems]

\* compareEqual runs on the record's field value and the filter's value.
CompareStep ==
    /\ flt.pc = "on"
    /\ ~flt.compared
    /\ flt' = [flt EXCEPT
                 !.compared = TRUE,
                 !.eq = compareEqual(FieldOf(flt.record, flt.filter.field),
                                     flt.filter.value)]

\* The other operator of the pair "=" and "!=".
Opposite(operator) == IF operator = "=" THEN "!=" ELSE "="

\* applyFilter runs on the same record with the same field and value and the
\* other operator of the pair "=", "!=".
ApplyOppositeStep ==
    /\ flt.pc = "on"
    /\ ~flt.opposed
    /\ flt.filter.operator \in {"=", "!="}
    /\ flt' = [flt EXCEPT
                 !.opposed = TRUE,
                 !.keptOpposite =
                     applyFilter(NewArray(<<flt.record>>),
                                 [flt.filter EXCEPT
                                    !.operator = Opposite(@)]).elems]

NextFilter ==
    /\ ApplyFilterStep \/ CompareStep \/ ApplyOppositeStep
    /\ UNCHANGED <<engineVars, exec, san>>

SpecFilter == InitFilter /\ [][NextFilter]_vars

\* The records of the unit evaluations of execute: a numeric field v that
\* is a number, null or missing, and an id that tells the records apart.
ExecPool ==
    { [id |-> Num(1), v |-> Num(3)], [id |-> Num(2), v |-> Num(1)],
      [id |-> Num(3), v |-> Null], [id |-> Num(4)],
      [id |-> Num(5), v |-> Num(1)] }
\* Every collection of up to MaxRecords different records, in every order.
ExecCollections ==
    { c \in UNION {[1..n -> ExecPool] : n \in 0..MaxRecords} :
        \A i, j \in DOMAIN c : c[i] = c[j] => i = j }
VOverOne == Filter("v", ">", Num(1))
NotFifth == Filter("id", "!=", Str(<<"5">>))
VLikeZero == Filter("v", "like", Num(0))
ExecFilterLists ==
    { <<>>, <<VOverOne>>, <<NotFifth, VLikeZero>>,
      <<VLikeZero, VOverOne, NotFifth>>, <<NotFifth, NullFilter>>,
      <<NotFifth, VOverOne>> }
ExecSorts == { <<UNDEF, UNDEF>>, <<"v", "asc">>, <<"v", "desc">>, <<"v", UNDEF>> }
ExecLimits == { None, Some(-1), Some(0), Some(1), Some(2), Some(5) }
ExecPlans ==
    { [filters |-> fs, sortBy |-> so[1], sortOrder |-> so[2], limit |-> l] :
        fs \in ExecFilterLists, so \in ExecSorts, l \in ExecLimits }

\* A collection and a plan, before execute runs.
ExecStart(collection, p) ==
    [pc |-> "on", records |-> collection, plan |-> p, done |-> FALSE,
     out |-> [threw |-> FALSE, results |-> <<>>, records |-> collection]]

InitExecute ==
    /\ EngineInit({TRUE}, {TRUE}, {TRUE}, {<<>>})
    /\ flt = FltOff
    /\ exec \in {ExecStart(c, p) : c \in ExecCollections, p \in ExecPlans}
    /\ san = SanOff

\* QueryExecutor.execute runs on the collection and the plan.
RunExecute ==
    /\ exec.pc = "on"
    /\ ~exec.done
    /\ exec' = [exec EXCEPT !.done = TRUE,
                            !.out = execute(exec.records, exec.plan)]

NextExecute ==
    /\ RunExecute
    /\ UNCHANGED <<engineVars, flt, san>>

SpecExecute == InitExecute /\ [][NextExecute]_vars

\* The pieces query texts are put together from.
Phrases ==
    {
      <<"e","a","r","n","s">>, <<"S","a","l","a","r","y">>,
      <<"m","o","n","e","y">>, <<"m","o","r","e"," ","t","h","a","n">>,
      <<"l","e","s","s"," ","t","h","a","n">>,
      <<"g","r","e","a","t","e","r"," ","t","h","a","n">>,
      <<" ","o","r"," ","e","q","u","a","l"," ","t","o">>,
      <<"m","o","r","e">>, <<" ","t","h","a","n">>, <<" ">>, <<"x">>,
      <<"l","e","s","s">> }

RECURSIVE Concat(_)
Concat(parts) == IF parts = <<>> THEN <<>> ELSE Head(parts) \o Concat(Tail(parts))

\* Every text made of up to MaxPhrases phrases written one after another.
SanQueries ==
    { Concat(parts) : parts \in UNION {[1..n -> Phrases] : n \in 0..MaxPhrases} }

\* A query text, before sanitizeQuery runs.
SanStart(query) ==
    [pc |-> "on", query |-> query, passes |-> 0, once |-> <<>>, twice |-> <<>>]

InitSanitize ==
    /\ EngineInit({TRUE}, {TRUE}, {TRUE}, {<<>>})
    /\ flt = FltOff
    /\ exec = ExecOff
    /\ san \in {SanStart(text) : text \in SanQueries}

\* sanitizeQuery runs on the query text.
SanitizeQueryText ==
    /\ san.pc = "on"
    /\ san.passes = 0
    /\ san' = [san EXCEPT !.passes = 1, !.once = sanitizeQuery(san.query)]

\* sanitizeQuery runs on the text it returned.
SanitizeSanitized ==
    /\ san.pc = "on"
    /\ san.passes = 1
    /\ san' = [san EXCEPT !.passes = 2, !.twice = sanitizeQuery(san.once)]

NextSanitize ==
    /\ SanitizeQueryText \/ SanitizeSanitized
    /\ UNCHANGED <<engineVars, flt, exec>>

SpecSanitize == InitSanitize /\ [][NextSanitize]_vars

\* ------------------------------------------------------------------ claims
DegradedTags == {"empty", "noJson", "badJson"}
FatalTags == {"thrown", "noClient"}
Last(seq) == seq[Len(seq)]

\* Every attempt of plan() has been made and none yielded a plan.
PlanFailed(q) == Len(log[q]) = 3 /\ Last(log[q]) # "parsed"
\* plan() has not returned yet.
Planning(q) == pc[q] \in {"planCall", "planWait"}
\* An error left plan() itself (no plan was returned).
PlanRaised(q) == outcome[q] = "raised" /\ plan[q] = NoPlan
\* execute has run and returned for invocation q.
Executed(q) ==
    \/ pc[q] \in {"consCall", "consolidated"}
    \/ pc[q] = "done" /\ outcome[q] = "returned"

\* C1: on a well-formed bundle, a query() whose collaborator answers were
\* all empty, without JSON or unparsable (planning and consolidation) never
\* raises, and once finished it has returned a result.
C1_QueryDegradesNeverRaises ==
    \A q \in Queries :
        ( /\ wellFormed
          /\ kind[q] = "query"
          /\ pc[q] # "idle"
          /\ \A i \in DOMAIN log[q] : log[q][i] \in DegradedTags
          /\ consLog[q] \in {"none", "noMatches", "badJson", "nullJson"} )
        => /\ outcome[q] # "raised"
           /\ pc[q] = "done" => outcome[q] = "returned"

C1_Witness ==
    \E q \in Queries :
        /\ kind[q] = "query"
        /\ log[q] = <<"empty", "noJson", "badJson">>
        /\ consLog[q] = "badJson"
        /\ pc[q] = "done"
        /\ outcome[q] = "returned"

\* C2 as claimed: plan() never raises because of the collaborator, and when
\* all attempts failed it returns filters = [] with limit = the caller's
\* hint whenever one was given, else 10.
C2_Original ==
    \A q \in Queries :
        (wellFormed /\ log[q] # <<>> /\ Last(log[q]) # "parsed")
        => /\ outcome[q] # "raised"
           /\ PlanFailed(q) =>
                /\ ~Planning(q)
                /\ plan[q].filters = <<>>
                /\ plan[q].limit =
                      IF hint[q] # None THEN hint[q] ELSE Some(10)

\* C2 amended: as C2, with limit = the caller's hint when it is given and
\* not 0, else 10.
C2_FallbackPlanAfterAllAttemptsFail ==
    \A q \in Queries :
        (wellFormed /\ log[q] # <<>> /\ Last(log[q]) # "parsed")
        => /\ outcome[q] # "raised"
           /\ PlanFailed(q) =>
                /\ ~Planning(q)
                /\ plan[q].filters = <<>>
                /\ plan[q].limit =
                      IF hint[q] # None /\ hint[q][1] # 0 THEN hint[q]
                      ELSE Some(10)

C2_Witness ==
    \E q \in Queries :
        /\ log[q] = <<"thrown", "empty", "badJson">>
        /\ pc[q] = "planned"
        /\ hint[q] = Some(2)
        /\ plan[q].limit = Some(2)
        /\ plan[q].filters = <<>>

\* C3: plan() issues at most 3 generateText calls; when the three answers
\* were all empty it has issued exactly 3 and has returned the fallback
\* plan.
C3_AtMostThreePlanCalls ==
    \A q \in Queries :
        /\ calls[q] <= 3
        /\ (Len(log[q]) = 3 /\ \A i \in 1..3 : log[q][i] = "empty")
           => /\ calls[q] = 3
              /\ ~Planning(q)
              /\ ~PlanRaised(q)
              /\ plan[q].filters = <<>>
              /\ plan[q].sortBy = UNDEF
              /\ plan[q].limit \in {hint[q], Some(10)}

C3_Witness ==
    \E q \in Queries :
        /\ log[q] = <<"empty", "empty", "empty">>
        /\ calls[q] = 3
        /\ pc[q] = "planned"
        /\ plan[q].filters = <<>>

\* C4 as claimed: three failed attempts (empty, no JSON, unparsable) are
\* spaced by backoff delays of 2 s, 4 s and 8 s, in that order.
C4_Original ==
    \A q \in Queries :
        (PlanFailed(q) /\ \A i \in 1..3 : log[q][i] \in DegradedTags)
        => delays[q] = <<2000, 4000, 8000>>

\* The attempts of q that have failed so far.
FailedAttempts(q) ==
    IF log[q] # <<>> /\ Last(log[q]) = "parsed"
    THEN Len(log[q]) - 1
    ELSE Len(log[q])

\* C4 amended: plan() makes at most 3 attempts; a failed attempt that is
\* not the last is followed by a delay, 2 s after the first and 4 s after
\* the second; nothing is waited after the third, so no 8 s delay occurs.
C4_BackoffTwoThenFourSeconds ==
    \A q \in Queries :
        /\ attempt[q] <= 3
        /\ Len(delays[q]) <= 2
        /\ delays[q] = SubSeq(<<2000, 4000>>, 1, Len(delays[q]))
        /\ Len(delays[q]) =
              IF FailedAttempts(q) < 2 THEN FailedAttempts(q) ELSE 2

C4_Witness ==
    \E q \in Queries :
        /\ log[q] = <<"empty", "noJson", "badJson">>
        /\ delays[q] = <<2000, 4000>>
        /\ pc[q] = "planned"

C6_ExecuteNeverMutatesRecords == records = original

C6_Witness ==
    \E q \in Queries :
        /\ Executed(q)
        /\ plan[q].sortBy = "age"
        /\ Len(matching[q]) = 3
        /\ matching[q] # original
        /\ records = original

\* C7: under every interleaving of concurrent invocations the collection
\* stays as supplied and each invocation gets the matching records that its
\* plan yields on the collection as supplied (its result when run alone).
C7_ConcurrentInvocationsIndependent ==
    /\ records = original
    /\ \A q \in Queries :
          Executed(q) => matching[q] = execute(original, plan[q]).results

C7_Witness ==
    /\ pc[1] = "done" /\ outcome[1] = "returned"
    /\ pc[2] = "done" /\ outcome[2] = "returned"
    /\ plan[1].sortBy = "age"
    /\ plan[2].sortBy = "name"
    /\ Len(original) = 3
    /\ matching[1] # original
    /\ matching[2] # matching[1]

\* C8: with no matching record consolidate() answers "No matching records
\* found for your query." with no insights and no stats, and query() has
\* issued no consolidation call.
C8_NoMatchesNoConsolidationCall ==
    \A q \in Queries :
        (kind[q] = "query" /\ Executed(q) /\ matching[q] = <<>>)
        => /\ pc[q] # "consCall"
           /\ consCalls[q] = 0
           /\ consolidated[q].answer =
                 "No matching records found for your query."
           /\ consolidated[q].insights = <<>>
           /\ consolidated[q].stats = {}

C8_Witness ==
    \E q \in Queries :
        /\ kind[q] = "query"
        /\ pc[q] = "done"
        /\ outcome[q] = "returned"
        /\ Len(original) = 2
        /\ matching[q] = <<>>
        /\ consCalls[q] = 0
        /\ consLog[q] = "noMatches"

\* "Found N matching records." for the match counts of the model.
FoundAnswer(n) ==
    CASE n = 1 -> "Found 1 matching records."
      [] n = 2 -> "Found 2 matching records."
      [] n = 3 -> "Found 3 matching records."

\* C9: with N > 0 matches consolidate() issues at most one collaborator
\* call and never raises; when that call throws or its answer is not a
\* JSON object it returns "Found N matching records.", no insights and
\* stats {total: N}, after exactly that one call.
C9_ConsolidateFallsBackAfterOneCall ==
    \A q \in Queries :
        /\ consCalls[q] <= 1
        /\ consLog[q] # "none" => outcome[q] # "raised"
        /\ consLog[q] \in {"thrown", "badJson", "nullJson"} =>
              /\ consCalls[q] = 1
              /\ Len(matching[q]) > 0
              /\ consolidated[q].answer = FoundAnswer(Len(matching[q]))
              /\ consolidated[q].insights = <<>>
              /\ consolidated[q].stats = {<<"total", Len(matching[q])>>}

C9_Witness ==
    \E q \in Queries :
        /\ consLog[q] = "badJson"
        /\ Len(matching[q]) = 2
        /\ consolidated[q].answer = "Found 2 matching records."
        /\ consCalls[q] = 1
        /\ pc[q] = "done"
        /\ outcome[q] = "returned"

\* C10: queryRaw() never issues the consolidation call, makes at most the
\* 3 planner calls, and returns the matching records a query() with the
\* same limit and the same planner answers returns.
C10_QueryRawSkipsConsolidation ==
    \A q \in Queries :
        (kind[q] = "queryRaw" /\ pc[q] # "idle")
        => /\ consCalls[q] = 0
           /\ consLog[q] = "none"
           /\ pc[q] \notin {"consCall", "consolidated"}
           /\ calls[q] <= 3
           /\ \A p \in Queries :
                 ( /\ kind[p] = "query"
                   /\ Executed(p) /\ Executed(q)
                   /\ hint[p] = hint[q]
                   /\ log[p] = log[q]
                   /\ planJson[p] = planJson[q] )
                 => matching[p] = matching[q]

C10_Witness ==
    \E q, p \in Queries :
        /\ kind[q] = "queryRaw" /\ kind[p] = "query"
        /\ pc[q] = "done" /\ outcome[q] = "returned"
        /\ pc[p] = "done" /\ outcome[p] = "returned"
        /\ hint[p] = Some(1) /\ hint[q] = Some(1)
        /\ log[p] = log[q]
        /\ planJson[p] = planJson[q]
        /\ Len(matching[q]) = 1
        /\ matching[p] = matching[q]
        /\ consCalls[q] = 0 /\ consCalls[p] = 1

\* C11 as claimed: the caller's options.limit = L > 0 bounds the number of
\* matching records query() / queryRaw() returns, whatever plan the
\* collaborator answered with.
C11_Original ==
    \A q \in Queries :
        (Executed(q) /\ hint[q] # None /\ hint[q][1] > 0)
        => Len(matching[q]) <= hint[q][1]

\* plan() has returned a plan for invocation q.
PlanReturned(q) == plan[q] # NoPlan

\* C19 as claimed: on a bundle that is not complete query() raises at once:
\* no generateText call, no attempt after the first, no backoff wait.
C19_Original ==
    \A q \in Queries :
        (kind[q] = "query" /\ ~wellFormed /\ pc[q] # "idle")
        => /\ pc[q] = "done"
           /\ outcome[q] = "raised"
           /\ calls[q] = 0
           /\ delays[q] = <<>>

\* C20 as claimed: every plan plan() returns has a positive limit.
C20_Original ==
    \A q \in Queries :
        PlanReturned(q) => (plan[q].limit # None /\ plan[q].limit[1] > 0)

\* An optional number that is absent, 0 or positive.
NotNegative(o) == o = None \/ o[1] >= 0

\* C20 amended: every plan plan() returns has a limit that is a number other
\* than 0; it is positive unless it is a negative limit taken over from the
\* collaborator's JSON or from the caller's hint.
C20_PlanLimitNeverZeroOrAbsent ==
    \A q \in Queries :
        PlanReturned(q) =>
            /\ plan[q].limit # None
            /\ plan[q].limit[1] # 0
            /\ plan[q].limit[1] < 0 => plan[q].limit \in {planJson[q].limit, hint[q]}
            /\ (NotNegative(planJson[q].limit) /\ NotNegative(hint[q]))
                  => plan[q].limit[1] > 0

C20_Witness ==
    \E q \in Queries :
        /\ pc[q] = "planned"
        /\ Last(log[q]) = "parsed"
        /\ planJson[q].limit = None
        /\ hint[q] = Some(2)
        /\ plan[q].limit = Some(2)

\* The value the filter of the unit evaluation reads from its record.
FltFieldValue == FieldOf(flt.record, flt.filter.field)
FltFieldIsNull == FltFieldValue.t \in {"null", "undefined"}
\* applyFilter has run in the unit evaluation, and it kept the record.
FltApplied == flt.pc = "on" /\ flt.applied
FltKept == flt.kept = <<flt.record>>

\* C12: a record whose filtered field is missing or null passes the filter
\* exactly when the operator is "!=", whatever the operator text (the known
\* operators and unknown ones alike) and whatever the filter's value.
C12_NullFieldPassesOnlyNotEqual ==
    (FltApplied /\ FltFieldIsNull)
    => /\ flt.kept \in {<<>>, <<flt.record>>}
       /\ FltKept <=> flt.filter.operator = "!="

C12_Witness ==
    /\ FltApplied
    /\ flt.record = [g |-> Num(1)]
    /\ flt.filter.operator = "like"
    /\ flt.kept = <<>>

\* C13 as claimed: a filter whose operator is not one of the nine known
\* operators removes no record.
C13_Original ==
    (FltApplied /\ flt.filter.operator \notin KnownOperators) => FltKept

\* C13 amended: a filter whose operator is not one of the nine known
\* operators fails nothing and keeps every record whose filtered field has
\* a value; a record whose filtered field is missing or null is removed.
C13_UnknownOperatorKeepsNonNull ==
    (FltApplied /\ flt.filter.operator \notin KnownOperators)
    => /\ flt.kept \in {<<>>, <<flt.record>>}
       /\ FltKept <=> ~FltFieldIsNull

C13_Witness ==
    /\ FltApplied
    /\ flt.filter.operator = "like"
    /\ flt.record = [f |-> Str(<<"a","b","c">>)]
    /\ flt.filter.value = Num(123)
    /\ FltKept

\* The four stages of the equality cascade.  A side parses as a number when
\* Number() of it is not NaN; the boolean of a side is read off its
\* trimmed, lower-cased text.
StageExact(a, b) == a = b
StageText(a, b) ==
    ToLowerCase(Trim(String(a))) = ToLowerCase(Trim(String(b)))
StageNumber(a, b) ==
    /\ ~Number(a).nan
    /\ ~Number(b).nan
    /\ Number(a).n = Number(b).n
BooleanOf(v) ==
    LET text == ToLowerCase(Trim(String(v))) IN
    IF v = Bool(TRUE) \/ text \in {<<"t","r","u","e">>, <<"1">>} THEN "true"
    ELSE IF v = Bool(FALSE) \/ text \in {<<"f","a","l","s","e">>, <<"0">>}
         THEN "false"
    ELSE "none"
StageBoolean(a, b) == BooleanOf(a) # "none" /\ BooleanOf(a) = BooleanOf(b)
Cascade(a, b) ==
    StageExact(a, b) \/ StageText(a, b) \/ StageNumber(a, b)
        \/ StageBoolean(a, b)

\* C14: compareEqual is the four-stage cascade (exact, trimmed
\* case-insensitive text, numeric, boolean); "30" = 30, "true" = true and
\* "abc" = "ABC" hold, "abc" = 123 does not.
C14_EqualityIsFourStageCascade ==
    (flt.pc = "on" /\ flt.compared)
    => /\ flt.eq = Cascade(FltFieldValue, flt.filter.value)
       /\ (FltFieldValue = Str(<<"3","0">>) /\ flt.filter.value = Num(30))
             => flt.eq
       /\ (FltFieldValue = Str(<<"t","r","u","e">>)
             /\ flt.filter.value = Bool(TRUE)) => flt.eq
       /\ (FltFieldValue = Str(<<"a","b","c">>)
             /\ flt.filter.value = Str(<<"A","B","C">>)) => flt.eq
       /\ (FltFieldValue = Str(<<"a","b","c">>)
             /\ flt.filter.value = Num(123)) => ~flt.eq

C14_Witness ==
    /\ flt.pc = "on"
    /\ flt.compared
    /\ FltFieldValue = Str(<<"0","3","0">>)
    /\ flt.filter.value = Num(30)
    /\ flt.eq

\* execute has run in the unit evaluation and returned.
ExecReturned == exec.pc = "on" /\ exec.done /\ ~exec.out.threw
\* The sort key of the i-th returned record.
SortKey(i) == FieldOf(exec.out.results[i], exec.plan.sortBy)
KeyIsNull(i) == SortKey(i).t \in {"null", "undefined"}

\* C15: when plan.sortBy is set, no returned record with a null or missing
\* sortBy value comes before one with a value, for asc and for desc; with
\* asc the values of a numeric field are non-decreasing.
C15_NullsLastAndAscendingNumbers ==
    (ExecReturned /\ exec.plan.sortBy = "v"
        /\ exec.plan.sortOrder \in {"asc", "desc"})
    => \A i, j \in DOMAIN exec.out.results :
          i < j =>
             /\ KeyIsNull(i) => KeyIsNull(j)
             /\ (exec.plan.sortOrder = "asc" /\ ~KeyIsNull(i) /\ ~KeyIsNull(j))
                   => SortKey(i).n <= SortKey(j).n

C15_Witness ==
    /\ ExecReturned
    /\ exec.plan.sortBy = "v"
    /\ exec.plan.sortOrder = "desc"
    /\ exec.plan.filters = <<>>
    /\ exec.plan.limit = None
    /\ Len(exec.records) = 4
    /\ KeyIsNull(3) /\ KeyIsNull(4)
    /\ ~KeyIsNull(1) /\ ~KeyIsNull(2)
    /\ FieldOf(exec.records[1], "v").t = "null"
    /\ SortKey(1).n > SortKey(2).n

\* The filtered-and-sorted records of the unit evaluation, before the limit.
FilteredAndSorted ==
    SortStep(FilterLoop(SpreadCopy(exec.records), exec.plan.filters).arr,
             exec.plan).elems
\* The first k elements of a sequence, all of it when it is shorter.
FirstOf(seq, k) == SubSeq(seq, 1, IF k < Len(seq) THEN k ELSE Len(seq))

\* C16: with a positive plan.limit L execute returns exactly the first
\* min(L, m) of the m filtered-and-sorted records; with a limit that is 0,
\* negative or absent it returns all m; with no filter, no sort and limit 0
\* it returns the records as supplied.
C16_LimitTruncatesOnlyWhenPositive ==
    ExecReturned
    => /\ exec.out.results =
             IF exec.plan.limit # None /\ exec.plan.limit[1] > 0
             THEN FirstOf(FilteredAndSorted, exec.plan.limit[1])
             ELSE FilteredAndSorted
       /\ (exec.plan.filters = <<>> /\ exec.plan.sortBy = UNDEF
              /\ exec.plan.limit = Some(0))
             => exec.out.results = exec.records

C16_Witness ==
    /\ ExecReturned
    /\ exec.plan.limit = Some(2)
    /\ exec.plan.sortBy = "v"
    /\ exec.plan.sortOrder = "asc"
    /\ Len(FilteredAndSorted) = 4
    /\ Len(exec.out.results) = 2
    /\ exec.out.results # SubSeq(exec.records, 1, 2)

\* The orderings of a sequence of filters.
FilterOrderings(fs) ==
    { [i \in DOMAIN fs |-> fs[p[i]]] :
        p \in { g \in [DOMAIN fs -> DOMAIN fs] :
                  \A i, j \in DOMAIN fs : g[i] = g[j] => i = j } }

\* C17: execute gives the same outcome (the same records in the same order,
\* or the same failure) for every ordering of plan.filters.
C17_FilterOrderIrrelevant ==
    (exec.pc = "on" /\ exec.done)
    => \A fs \in FilterOrderings(exec.plan.filters) :
          LET other == execute(exec.records, [exec.plan EXCEPT !.filters = fs])
          IN  /\ other.threw = exec.out.threw
              /\ other.results = exec.out.results

C17_Witness ==
    /\ ExecReturned
    /\ exec.plan.filters = <<VLikeZero, VOverOne, NotFifth>>
    /\ Len(exec.records) = 4
    /\ Len(exec.out.results) = 1

\* C18: sanitizing a text that sanitizeQuery returned changes nothing.
C18_SanitizerIdempotent ==
    (san.pc = "on" /\ san.passes = 2) => san.twice = san.once

C18_Witness ==
    /\ san.pc = "on"
    /\ san.passes = 2
    /\ san.query = <<"m","o","r","e"," ","t","h","a","n"," ","o","r"," ","e","q","u","a","l"," ","t","o">>
    /\ san.once = <<"a","t"," ","l","e","a","s","t">>
    /\ san.twice = san.once

\* plan() has returned the plan it built from a parsed response.
PlanParsed(q) == PlanReturned(q) /\ Last(log[q]) = "parsed"

\* C21 as claimed: a parsed response gives filters [] unless the JSON holds
\* an array, sortOrder desc when absent, and as limit the response's limit,
\* else the caller's hint whenever one was given, else 10.
C21_Original ==
    \A q \in Queries :
        PlanParsed(q) =>
            /\ plan[q].filters =
                  IF planJson[q].filtersIsArray THEN planJson[q].filters
                  ELSE <<>>
            /\ plan[q].sortOrder =
                  IF planJson[q].sortOrder = UNDEF THEN "desc"
                  ELSE planJson[q].sortOrder
            /\ plan[q].limit =
                  IF planJson[q].limit # None THEN planJson[q].limit
                  ELSE IF hint[q] # None THEN hint[q]
                  ELSE Some(10)

\* An optional number that is given and not 0.
GivenNonZero(o) == o # None /\ o[1] # 0

\* C21 amended: as C21, with as limit the response's limit when it is given
\* and not 0, else the caller's hint when it is given and not 0, else 10.
C21_ParsedPlanDefaults ==
    \A q \in Queries :
        PlanParsed(q) =>
            /\ plan[q].filters =
                  IF planJson[q].filtersIsArray THEN planJson[q].filters
                  ELSE <<>>
            /\ plan[q].sortBy = planJson[q].sortBy
            /\ plan[q].sortOrder =
                  IF planJson[q].sortOrder = UNDEF THEN "desc"
                  ELSE planJson[q].sortOrder
            /\ plan[q].limit =
                  IF GivenNonZero(planJson[q].limit) THEN planJson[q].limit
                  ELSE IF GivenNonZero(hint[q]) THEN hint[q]
                  ELSE Some(10)

C21_Witness ==
    \E q \in Queries :
        /\ PlanParsed(q)
        /\ ~planJson[q].filtersIsArray
        /\ planJson[q].sortOrder = UNDEF
        /\ planJson[q].limit = Some(0)
        /\ hint[q] = Some(2)
        /\ plan[q].filters = <<>>
        /\ plan[q].sortOrder = "desc"
        /\ plan[q].limit = Some(2)

\* C22: an invocation that sits in a backoff wait, however long, does not
\* hold up another one: the other invocation, once called, takes its steps
\* and runs to completion.
C22_BackoffSuspendsOnlyItsQuery ==
    (pc[2] # "idle") ~> (pc[2] = "done")

C22_Witness ==
    /\ pc[1] = "planWait"
    /\ delays[1] = <<2000>>
    /\ pc[2] = "done"
    /\ outcome[2] = "returned"
    /\ calls[2] = 3
    /\ delays[2] = <<2000, 4000>>

\* C27: when every collaborator call settles, every invocation that was
\* called completes: it returns or raises.
C27_EveryInvocationCompletes ==
    \A q \in Queries :
        (pc[q] # "idle")
        ~> (pc[q] = "done" /\ outcome[q] \in {"returned", "raised"})

C27_Witness ==
    \E q \in Queries :
        /\ kind[q] = "queryRaw"
        /\ pc[q] = "done"
        /\ outcome[q] = "returned"
        /\ calls[q] = 3
        /\ Len(delays[q]) = 2

\* Where a record stands in the collection execute was given (the records of
\* a collection are all different).
PlaceOf(r) == CHOOSE k \in DOMAIN exec.records : exec.records[k] = r
\* The sortBy values of the i-th and j-th returned records compare equal:
\* both null or missing, or the same number.
KeysTie(i, j) ==
    \/ KeyIsNull(i) /\ KeyIsNull(j)
    \/ /\ SortKey(i).t = "number" /\ SortKey(j).t = "number"
       /\ SortKey(i).n = SortKey(j).n

\* C23: sorting is stable: returned records whose sortBy values compare
\* equal, two records that both lack the field included, stand in the order
\* they had in the collection.
C23_SortIsStable ==
    (ExecReturned /\ exec.plan.sortBy = "v")
    => \A i, j \in DOMAIN exec.out.results :
          (i < j /\ KeysTie(i, j))
          => PlaceOf(exec.out.results[i]) < PlaceOf(exec.out.results[j])

C23_Witness ==
    /\ ExecReturned
    /\ exec.plan.sortBy = "v"
    /\ exec.plan.sortOrder = "asc"
    /\ exec.records =
         << [id |-> Num(3), v |-> Null], [id |-> Num(5), v |-> Num(1)],
            [id |-> Num(4)], [id |-> Num(2), v |-> Num(1)] >>
    /\ exec.out.results =
         << [id |-> Num(5), v |-> Num(1)], [id |-> Num(2), v |-> Num(1)],
            [id |-> Num(3), v |-> Null], [id |-> Num(4)] >>

\* Number(v), with 0 for a value that does not parse.
NumberOrZero(v) == IF Number(v).nan THEN 0 ELSE Number(v).n
\* The numeric comparison an operator text stands for.
Relation(operator, x, y) ==
    CASE operator = ">" -> x > y
      [] operator = "<" -> x < y
      [] operator = ">=" -> x >= y
      [] operator = "<=" -> x <= y
RelationalOperators == {">", "<", ">=", "<="}

\* C24: on a field that has a value, >, <, >= and <= keep the record exactly
\* when the numbers read from the field and from the filter's value, 0 for
\* a value that does not parse, stand in that relation; a field "abc"
\* passes > -1 and >= 0 and fails > 0.
C24_RelationalOperatorsCompareNumbers ==
    (FltApplied /\ ~FltFieldIsNull
        /\ flt.filter.operator \in RelationalOperators)
    => /\ flt.kept \in {<<>>, <<flt.record>>}
       /\ FltKept <=> Relation(flt.filter.operator,
                               NumberOrZero(FltFieldValue),
                               NumberOrZero(flt.filter.value))
       /\ FltFieldValue = Str(<<"a","b","c">>) =>
             /\ (flt.filter = Filter("f", ">", Num(-1))) => FltKept
             /\ (flt.filter = Filter("f", ">=", Num(0))) => FltKept
             /\ (flt.filter = Filter("f", ">", Num(0))) => ~FltKept

C24_Witness ==
    /\ FltApplied
    /\ flt.record = [f |-> Str(<<"a","b","c">>)]
    /\ flt.filter = Filter("f", ">", Num(-1))
    /\ FltKept

\* applyFilter has run with the operator of the filter and with the other
\* operator of the pair.
FltBothApplied == FltApplied /\ flt.opposed
FltKeptOpposite == flt.keptOpposite = <<flt.record>>

\* C30: for every record, field and value, a null or missing field and a
\* null value included, exactly one of the filters {field, =, value} and
\* {field, !=, value} keeps the record.
C30_EqualAndNotEqualComplementary ==
    FltBothApplied
    => /\ flt.kept \in {<<>>, <<flt.record>>}
       /\ flt.keptOpposite \in {<<>>, <<flt.record>>}
       /\ FltKept <=> ~FltKeptOpposite

C30_Witness ==
    /\ FltBothApplied
    /\ flt.record = [g |-> Num(1)]
    /\ flt.filter = Filter("f", "=", Null)
    /\ ~FltKept
    /\ FltKeptOpposite

\* Filtering has not started for invocation q.
BeforeFiltering(q) == pc[q] \in {"idle", "planCall", "planWait", "planned"}

\* C25: in a query() invocation the planning calls (at most 3) are all over
\* before filtering starts, the consolidation call (at most 1) is made only
\* once filtering has produced the matches, and once filtering has run no
\* planning call follows: at most 4 collaborator calls in all.
C25_StagesInSequence ==
    /\ [](\A q \in Queries :
            kind[q] = "query" =>
               /\ calls[q] <= 3
               /\ consCalls[q] <= 1
               /\ calls[q] + consCalls[q] <= 4
               /\ BeforeFiltering(q) =>
                     /\ consCalls[q] = 0
                     /\ consLog[q] = "none"
                     /\ matching[q] = <<>>
               /\ consCalls[q] = 1 =>
                     /\ Executed(q)
                     /\ PlanReturned(q)
                     /\ matching[q] = execute(original, plan[q]).results)
    /\ [][\A q \in Queries :
            ~BeforeFiltering(q) =>
               /\ calls'[q] = calls[q]
               /\ matching'[q] = matching[q]
               /\ plan'[q] = plan[q]
               /\ consCalls[q] = 1 => consCalls'[q] = 1]_vars

C25_Witness ==
    \E q \in Queries :
        /\ kind[q] = "query"
        /\ calls[q] = 3
        /\ consCalls[q] = 1
        /\ Len(matching[q]) = 2
        /\ pc[q] = "done"
        /\ outcome[q] = "returned"

\* C26: when attempt k is the first whose answer parses, plan() has made
\* exactly k calls and k - 1 waits, has returned the plan built from that
\* answer, and makes no further call or wait; a wait follows only a failed
\* attempt that is not the third, and none follows the third.
C26_StopsAtFirstParsedAttempt ==
    /\ [](\A q \in Queries :
            /\ (log[q] # <<>> /\ Last(log[q]) = "parsed") =>
                  /\ Len(log[q]) \in 1..3
                  /\ \A i \in 1..(Len(log[q]) - 1) : log[q][i] # "parsed"
                  /\ calls[q] = Len(log[q])
                  /\ attempt[q] = Len(log[q])
                  /\ Len(delays[q]) = Len(log[q]) - 1
                  /\ ~Planning(q)
                  /\ plan[q] = BuildPlan(planJson[q], hint[q])
            /\ \A i \in DOMAIN delays[q] :
                  i < 3 /\ i <= Len(log[q]) /\ log[q][i] # "parsed"
            /\ PlanFailed(q) => ~Planning(q) /\ Len(delays[q]) = 2)
    /\ [][\A q \in Queries :
            (log[q] # <<>> /\ Last(log[q]) = "parsed") =>
               /\ log'[q] = log[q]
               /\ calls'[q] = calls[q]
               /\ delays'[q] = delays[q]
               /\ plan'[q] = plan[q]]_vars

C26_Witness ==
    \E q \in Queries :
        /\ log[q] = <<"noJson", "parsed">>
        /\ calls[q] = 2
        /\ delays[q] = <<2000>>
        /\ pc[q] = "done"
        /\ plan[q] = BuildPlan(planJson[q], hint[q])

\* sanitizeQuery has run on the query text of the unit evaluation.
Sanitized == san.pc = "on" /\ san.passes >= 1

\* C28 as claimed: each listed comparison phrase comes out as its canonical
\* form: "more than" as "greater than", "less than" as "below", "greater
\* than or equal to" as "at least", "less than or equal to" as "at most".
C28_Original ==
    Sanitized =>
       /\ san.query = <<"m","o","r","e"," ","t","h","a","n">>
             => san.once = <<"g","r","e","a","t","e","r"," ","t","h","a","n">>
       /\ san.query = <<"l","e","s","s"," ","t","h","a","n">>
             => san.once = <<"b","e","l","o","w">>
       /\ san.query = <<"g","r","e","a","t","e","r"," ","t","h","a","n"," ","o","r"," ","e","q","u","a","l"," ","t","o">>
             => san.once = <<"a","t"," ","l","e","a","s","t">>
       /\ san.query = <<"l","e","s","s"," ","t","h","a","n"," ","o","r"," ","e","q","u","a","l"," ","t","o">>
             => san.once = <<"a","t"," ","m","o","s","t">>

\* The plan of the unit evaluation holds filter objects with known
\* operators only.
AllOperatorsKnown ==
    \A i \in DOMAIN exec.plan.filters :
        /\ exec.plan.filters[i].isObject
        /\ exec.plan.filters[i].operator \in KnownOperators
\* Every filter of the plan holds of record r.
EveryFilterHolds(r) ==
    \A i \in DOMAIN exec.plan.filters :
        FilterPredicate(r, exec.plan.filters[i])
\* The records of the collection that pass every filter, in their order.
Passing == SelectSeq(exec.records, EveryFilterHolds)
\* The limit of the plan cuts nothing off.
LimitIdle ==
    \/ exec.plan.limit = None
    \/ exec.plan.limit[1] <= 0
    \/ exec.plan.limit[1] >= Len(Passing)

\* C29: with known operators only, with no sortBy and a limit that cuts
\* nothing off, execute returns exactly the records that pass every filter,
\* each once, in the order of the collection; with a sortBy or a limit it
\* returns some of those records, none twice.
C29_ReturnsExactlyThePassingRecords ==
    (exec.pc = "on" /\ exec.done /\ AllOperatorsKnown)
    => /\ ~exec.out.threw
       /\ (exec.plan.sortBy = UNDEF /\ LimitIdle)
             => exec.out.results = Passing
       /\ \A i \in DOMAIN exec.out.results :
             /\ \E k \in DOMAIN Passing : Passing[k] = exec.out.results[i]
             /\ \A j \in DOMAIN exec.out.results :
                   exec.out.results[i] = exec.out.results[j] => i = j
       /\ Len(exec.out.results) <= Len(Passing)

C29_Witness ==
    /\ ExecReturned
    /\ exec.plan.filters = <<NotFifth, VOverOne>>
    /\ exec.plan.sortBy = UNDEF
    /\ exec.plan.limit = Some(0)
    /\ Len(exec.records) = 4
    /\ exec.out.results = <<[id |-> Num(1), v |-> Num(3)]>>

====
